---- MODULE Spec2Model ----
(***************************************************************************)
(* Model of the expense matching engine (utils/matching_engine.py) and of  *)
(* the match_expenses_for_event handler that stores its results            *)
(* (agents/expense_matching_agent.py).                                     *)
(*                                                                         *)
(* Numbers.  Confidences are Python floats.  A float is modelled as a pair *)
(* <<n, k>>: n is the decimal value in units of 1/10000 and k is the       *)
(* offset of the IEEE-754 double from the double nearest to that decimal   *)
(* (0 for a value that prints as the decimal, 1 for 0.30000000000000004,   *)
(* -1 for 0.7999999999999999).  For an overall confidence only the sign of *)
(* k is kept.  Two floats compare first on n and then on k.  The offsets   *)
(* produced by the additions and multiplications of the source are         *)
(* tabulated below for the operands the model can produce.                 *)
(* Amounts are integers in cents.                                          *)
(***************************************************************************)
EXTENDS Integers, Sequences, FiniteSets, TLC

(***************************************************************************)
(* Bounds of the model.                                                    *)
(***************************************************************************)
MaxCands == 1

(***************************************************************************)
(* Program constants.                                                      *)
(***************************************************************************)
AMOUNT_TOLERANCE_PCT == 1
DATE_TOLERANCE_DAYS == 3
ONE == 10000

None == <<>>
Some(x) == <<x>>
IsNone(o) == o = <<>>
Val(o) == o[1]

(***************************************************************************)
(* Floats.                                                                 *)
(***************************************************************************)
F(n) == <<n, 0>>
FZero == F(0)
FGt(x, y) == x[1] > y[1] \/ (x[1] = y[1] /\ x[2] > y[2])
FGe(x, y) == x = y \/ FGt(x, y)
FLt(x, y) == FGt(y, x)
FMax(x, y) == IF FGt(y, x) THEN y ELSE x
FMin(x, y) == IF FLt(y, x) THEN y ELSE x

\* score += term, in double arithmetic: the sums whose result or operands are
\* not the double nearest to their decimal.
AddTable ==
    {<< <<1000, 0>>, <<2000, 0>>, 1>>,
     << <<2000, 0>>, <<1000, 0>>, 1>>,
     << <<3000, 1>>, <<1000, 0>>, 0>>,
     << <<4000, 0>>, <<2000, 0>>, 1>>,
     << <<6000, 1>>, <<1000, 0>>, 1>>,
     << <<6000, 1>>, <<2000, 0>>, 0>>,
     << <<7000, 0>>, <<1000, 0>>, -1>>,
     << <<7000, 0>>, <<2000, 0>>, -1>>,
     << <<9000, -1>>, <<1000, 0>>, -1>>}

FAdd(x, y) ==
    IF x = FZero THEN y
    ELSE IF y = FZero THEN x
    ELSE IF \E e \in AddTable : e[1] = x /\ e[2] = y
         THEN <<x[1] + y[1], (CHOOSE e \in AddTable : e[1] = x /\ e[2] = y)[3]>>
         ELSE CASE x[2] = 0 /\ y[2] = 0 -> <<x[1] + y[1], 0>>

\* (a + b) / 2 * 1.2 in double arithmetic: the unordered operand pairs whose
\* result lies above (BoostUp) or below (BoostDown) the decimal (a+b)*0.6,
\* among the results that do not exceed 1.0.
BoostUp ==
    {<< <<-5000, 0>>, <<3000, 1>> >>, << <<-5000, 0>>, <<4000, 0>> >>,
     << <<-5000, 0>>, <<6000, 1>> >>, << <<-5000, 0>>, <<7000, 1>> >>,
     << <<-5000, 0>>, <<8000, 0>> >>, << <<0, 0>>, <<3000, 1>> >>,
     << <<0, 0>>, <<6000, 1>> >>, << <<0, 0>>, <<7000, 1>> >>,
     << <<3000, 1>>, <<3000, 1>> >>, << <<3000, 1>>, <<4000, 0>> >>,
     << <<3000, 1>>, <<9000, 0>> >>, << <<4000, 0>>, <<8000, 0>> >>,
     << <<5000, 0>>, <<7000, 1>> >>, << <<6000, 0>>, <<6000, 1>> >>,
     << <<6000, 1>>, <<6000, 1>> >>, << <<6000, 1>>, <<7000, 1>> >>,
     << <<6000, 1>>, <<8000, 0>> >>, << <<7000, 1>>, <<7000, 1>> >>}

BoostDown ==
    {<< <<-5000, 0>>, <<6000, 0>> >>, << <<-5000, 0>>, <<7000, 0>> >>,
     << <<-5000, 0>>, <<8000, -1>> >>, << <<-5000, 0>>, <<9000, -1>> >>,
     << <<-5000, 0>>, <<9500, 0>> >>, << <<-5000, 0>>, <<10000, -1>> >>,
     << <<0, 0>>, <<8000, -1>> >>, << <<0, 0>>, <<9000, -1>> >>,
     << <<0, 0>>, <<10000, -1>> >>, << <<3000, 1>>, <<10000, -1>> >>,
     << <<4000, 0>>, <<9000, -1>> >>, << <<5000, 0>>, <<8000, -1>> >>,
     << <<5000, 0>>, <<10000, -1>> >>, << <<6000, 0>>, <<7000, 0>> >>,
     << <<6000, 0>>, <<9000, -1>> >>, << <<6000, 0>>, <<9000, 0>> >>,
     << <<6000, 0>>, <<9500, 0>> >>, << <<6000, 0>>, <<10000, -1>> >>,
     << <<6000, 1>>, <<9000, -1>> >>, << <<6000, 1>>, <<9000, 0>> >>,
     << <<6000, 1>>, <<9500, 0>> >>, << <<7000, 0>>, <<8000, -1>> >>,
     << <<7000, 0>>, <<8000, 0>> >>, << <<7000, 0>>, <<9000, -1>> >>,
     << <<7000, 0>>, <<9500, 0>> >>, << <<7000, 1>>, <<8000, -1>> >>,
     << <<7000, 1>>, <<8000, 0>> >>, << <<7000, 1>>, <<9500, 0>> >>,
     << <<8000, -1>>, <<8000, -1>> >>}

\* x * 0.8 in double arithmetic: operands whose result lies above or below
\* the decimal x*0.8.
PenaltyUp == {<<3000, 1>>, <<4000, 0>>, <<6000, 1>>, <<8000, 0>>, <<9000, 0>>}
PenaltyDown == {<<7000, 0>>, <<10000, -1>>}

\* The confidences the tables cover.
ConfDomain ==
    {<<-5000, 0>>, <<0, 0>>, <<3000, 1>>, <<4000, 0>>, <<5000, 0>>,
     <<6000, 0>>, <<6000, 1>>, <<7000, 0>>, <<7000, 1>>, <<8000, -1>>,
     <<8000, 0>>, <<9000, -1>>, <<9000, 0>>, <<9500, 0>>, <<10000, -1>>}

Ordered(a, b) == IF FGt(a, b) THEN <<b, a>> ELSE <<a, b>>

\* (a + b) / 2 * 1.2
FBoost(a, b) ==
    LET n == ((a[1] + b[1]) * 6) \div 10
        p == Ordered(a, b)
    IN  <<n, IF n > ONE THEN 1
             ELSE IF p \in BoostUp THEN 1
             ELSE IF p \in BoostDown THEN -1 ELSE 0>>

\* x * 0.8
FPenalty(x) ==
    <<(x[1] * 8) \div 10,
      IF x \in PenaltyUp THEN 1 ELSE IF x \in PenaltyDown THEN -1 ELSE 0>>

(***************************************************************************)
(* Input records.  A vendor name is a sequence of characters, so that      *)
(* lower() and the substring test are computed as the source computes      *)
(* them.  A date is [kind, day]: "str" is a well-formed "%Y-%m-%d" string, *)
(* "badstr" a string strptime rejects, "datetime" a datetime object (what  *)
(* the DateTime columns of database/models.py yield), "none" is None.      *)
(***************************************************************************)
UpperCase ==
    <<"A", "B", "C", "D", "E", "F", "G", "H", "I", "J", "K", "L", "M",
      "N", "O", "P", "Q", "R", "S", "T", "U", "V", "W", "X", "Y", "Z">>
LowerCase ==
    <<"a", "b", "c", "d", "e", "f", "g", "h", "i", "j", "k", "l", "m",
      "n", "o", "p", "q", "r", "s", "t", "u", "v", "w", "x", "y", "z">>

\* str.lower() on one character.
LowerOfUpper ==
    [c \in {UpperCase[k] : k \in 1..26} |->
        LowerCase[CHOOSE k \in 1..26 : UpperCase[k] = c]]

Lower(c) == IF c \in DOMAIN LowerOfUpper THEN LowerOfUpper[c] ELSE c

LowerStr(s) == [j \in 1..Len(s) |-> Lower(s[j])]

\* Python's `a in b` on strings.
Contains(a, b) ==
    \E j \in 0..(Len(b) - Len(a)) : SubSeq(b, j + 1, j + Len(a)) = a

Date(kind, day) == [kind |-> kind, day |-> day]

ExpenseFixtures ==
    {[id |-> 1, amount |-> Some(10000), currency |-> "USD",
      expense_date |-> Date("str", 15), vendor_name |-> Some(<<"U", "b", "e", "r">>)],
     [id |-> 2, amount |-> Some(10000), currency |-> "USD",
      expense_date |-> Date("datetime", 15), vendor_name |-> Some(<<"U", "b", "e", "r">>)],
     [id |-> 3, amount |-> None, currency |-> "USD",
      expense_date |-> Date("str", 15), vendor_name |-> Some(<<"U", "b", "e", "r">>)],
     [id |-> 4, amount |-> Some(10000), currency |-> "USD",
      expense_date |-> Date("none", 0), vendor_name |-> None],
     [id |-> 5, amount |-> Some(0), currency |-> "EUR",
      expense_date |-> Date("badstr", 0), vendor_name |-> Some(<<>>)]}

TransactionFixtures ==
    {[id |-> 1, amount |-> Some(10000), currency |-> "USD",
      transaction_date |-> Date("str", 15), vendor_name |-> Some(<<"U", "B", "E", "R">>)],
     [id |-> 2, amount |-> Some(99900), currency |-> "EUR",
      transaction_date |-> Date("str", 15), vendor_name |-> Some(<<"B", "K">>)],
     [id |-> 3, amount |-> Some(10100), currency |-> "USD",
      transaction_date |-> Date("datetime", 15), vendor_name |-> Some(<<"U", "B", "E", "R">>)]}

SeqsUpTo(S, n) == UNION {[1..m -> S] : m \in 0..n}

\* The engine is invoked for one expense at a time; the batches explored are
\* the empty one and every single expense.
ExpenseBatches == {<<>>} \cup {<<e>> : e \in ExpenseFixtures}

Abs(x) == IF x < 0 THEN -x ELSE x

(***************************************************************************)
(* _fallback_rule_based_match                                              *)
(***************************************************************************)
\* float(None) and None.lower() raise; nothing in the function catches them.
ScoreRaises(expense, transaction) ==
    \/ IsNone(transaction.amount)
    \/ IsNone(expense.vendor_name)
    \/ IsNone(transaction.vendor_name)

\* expense_date after lines 246-252: None unless a datetime was given or parsed.
ParsedExpenseDate(expense) ==
    IF expense.expense_date.kind \in {"str", "datetime"}
    THEN Some(expense.expense_date.day) ELSE None

\* Mutant: the tolerance of line 260 dropped, only equal amounts match.
AmountTermExact(expense, transaction) ==
    IF Val(expense.amount) = Val(transaction.amount) THEN F(4000) ELSE FZero

AmountTerm(expense, transaction) ==
    LET ea == Val(expense.amount)
        ta == Val(transaction.amount)
    IN  IF 100 * Abs(ea - ta) <= ea * AMOUNT_TOLERANCE_PCT THEN F(4000) ELSE FZero

\* 0.3 * (1 - date_diff / tolerance); a zero tolerance divides by zero inside
\* the try block, whose bare except discards the error.
DateTerm(expense, transaction, tolerance) ==
    LET ed == ParsedExpenseDate(expense)
        td == transaction.transaction_date
    IN  IF IsNone(ed) \/ td.kind # "str" THEN FZero
        ELSE LET date_diff == Abs(Val(ed) - td.day)
             IN  IF date_diff <= tolerance /\ tolerance # 0
                 THEN F((3000 * (tolerance - date_diff)) \div tolerance)
                 ELSE FZero

VendorTerm(expense, transaction) ==
    LET expense_vendor == LowerStr(Val(expense.vendor_name))
        trans_vendor == LowerStr(Val(transaction.vendor_name))
    IN  IF /\ expense_vendor # <<>>
           /\ trans_vendor # <<>>
           /\ (Contains(expense_vendor, trans_vendor) \/ Contains(trans_vendor, expense_vendor))
        THEN F(2000) ELSE FZero

CurrencyTerm(expense, transaction) ==
    IF expense.currency = transaction.currency THEN F(1000) ELSE FZero

Score(expense, transaction, tolerance) ==
    FAdd(FAdd(FAdd(FAdd(FZero, AmountTerm(expense, transaction)),
                   DateTerm(expense, transaction, tolerance)),
              VendorTerm(expense, transaction)),
         CurrencyTerm(expense, transaction))

\* Line 297: min(1.0, score * 2.5).  The product keeps the offset of the
\* score from its decimal (0.30000000000000004 * 2.5 = 0.7500000000000001);
\* from 0.4 upwards it is 1.0 or more and the minimum is 1.0.
AmountMatchApprox(score) ==
    FMin(F(10000), <<(score[1] * 25) \div 10, score[2]>>)

\* Lines 296-302: the breakdown attached to a fallback outcome.
CriteriaScores(expense, transaction, score) ==
    [amount_match |-> AmountMatchApprox(score),
     date_match |-> F(5000),
     vendor_match |-> F(5000),
     currency_match |-> IF expense.currency = transaction.currency
                        THEN F(10000) ELSE FZero,
     description_match |-> F(5000)]

FallbackOutcome(expense, transaction, score) ==
    [transaction |-> transaction, confidence |-> score,
     criteria_scores |-> CriteriaScores(expense, transaction, score),
     reasoning |-> "fallback"]

\* A loop that keeps the first candidate with a positive score.
RECURSIVE BestFromFirst(_, _, _, _, _)
BestFromFirst(expense, transactions, j, best, tolerance) ==
    IF j > Len(transactions) THEN best
    ELSE LET score == Score(expense, transactions[j], tolerance)
         IN  BestFromFirst(expense, transactions, j + 1,
                           IF IsNone(best[1]) /\ FGt(score, FZero)
                           THEN <<Some(FallbackOutcome(expense, transactions[j], score)), score>>
                           ELSE best,
                           tolerance)

\* The loop of lines 254-304: best is <<best_match, best_score>>.
RECURSIVE BestFrom(_, _, _, _, _)
BestFrom(expense, transactions, j, best, tolerance) ==
    IF j > Len(transactions) THEN best
    ELSE LET score == Score(expense, transactions[j], tolerance)
         IN  BestFrom(expense, transactions, j + 1,
                      IF FGt(score, best[2])
                      THEN <<Some(FallbackOutcome(expense, transactions[j], score)), score>>
                      ELSE best,
                      tolerance)

\* Line 306: return best_match if best_score > 0.3 else None
AcceptBest(best) == IF FGt(best[2], F(3000)) THEN best[1] ELSE None

FallbackRaises(expense, transactions) ==
    \/ IsNone(expense.amount)
    \/ \E j \in 1..Len(transactions) : ScoreRaises(expense, transactions[j])

FallbackRuleBasedMatch(expense, transactions, tolerance) ==
    IF FallbackRaises(expense, transactions)
    THEN [raised |-> TRUE, match |-> None]
    ELSE [raised |-> FALSE,
          match |-> AcceptBest(BestFrom(expense, transactions, 1, <<None, FZero>>, tolerance))]

(***************************************************************************)
(* The scoring collaborator.  A response is what                           *)
(* client.chat.completions.create returns or raises:                       *)
(*   "exception"  the call raises (network error, timeout)                 *)
(*   "nonjson"    the content is not JSON, json.loads raises               *)
(*   "nofields"   the content is the JSON object {}                        *)
(*   "json"       a JSON object with the requested fields                  *)
(***************************************************************************)
LLMConfidences == {F(-5000), F(0), F(9500)}
LLMOverallConfidences == {F(-1000), F(5999), F(6000), F(7999), F(8000), F(15000)}

Response(kind, index, confidence) ==
    [kind |-> kind, index |-> index, confidence |-> confidence]

FailureResponses ==
    {Response(k, None, FZero) : k \in {"exception", "nonjson", "nofields"}}

\* Responses to a per-system matching prompt.
MatchResponses ==
    FailureResponses
      \cup {Response("json", None, c) : c \in LLMConfidences}
      \cup {Response("json", Some(j), c) :
                j \in (-(MaxCands + 1))..MaxCands, c \in LLMConfidences}

\* Responses to the overall-analysis prompt.
OverallResponses ==
    FailureResponses \cup {Response("json", None, c) : c \in LLMOverallConfidences}

NotCalled == Response("notcalled", None, FZero)

(***************************************************************************)
(* _find_best_llm_match                                                    *)
(***************************************************************************)
\* transactions[index] with Python's list indexing.
IndexInRange(transactions, index) ==
    index >= -Len(transactions) /\ index < Len(transactions)

PyIndex(transactions, index) ==
    IF index >= 0 THEN transactions[index + 1]
    ELSE transactions[Len(transactions) + index + 1]

\* The body of the try block, lines 117-129, for a JSON response with fields.
ParsedMatch(transactions, response) ==
    IF IsNone(response.index) THEN None
    ELSE Some([transaction |-> PyIndex(transactions, Val(response.index)),
               confidence |-> response.confidence,
               reasoning |-> "llm"])

\* The try block raises: the call, json.loads, a missing key or an IndexError.
MatchResponseFails(transactions, response) ==
    \/ response.kind \in {"exception", "nonjson", "nofields"}
    \/ /\ response.kind = "json"
       /\ ~IsNone(response.index)
       /\ ~IndexInRange(transactions, Val(response.index))

\* Mutant: the empty-list guard of lines 63-64 removed.
LLMMatchUnguarded(expense, transactions, response, tolerance) ==
    IF MatchResponseFails(transactions, response)
    THEN LET fb == FallbackRuleBasedMatch(expense, transactions, tolerance)
         IN  [raised |-> fb.raised, match |-> fb.match,
              called |-> TRUE, fell_back |-> TRUE]
    ELSE [raised |-> FALSE, match |-> ParsedMatch(transactions, response),
          called |-> TRUE, fell_back |-> FALSE]

\* The result of the call: the outcome, whether an exception left the
\* function, whether the collaborator was called and whether the except
\* branch ran.
FindBestLLMMatch(expense, transactions, response, tolerance) ==
    IF transactions = <<>>
    THEN [raised |-> FALSE, match |-> None, called |-> FALSE, fell_back |-> FALSE]
    ELSE IF MatchResponseFails(transactions, response)
    THEN LET fb == FallbackRuleBasedMatch(expense, transactions, tolerance)
         IN  [raised |-> fb.raised, match |-> fb.match,
              called |-> TRUE, fell_back |-> TRUE]
    ELSE [raised |-> FALSE, match |-> ParsedMatch(transactions, response),
          called |-> TRUE, fell_back |-> FALSE]

(***************************************************************************)
(* _fallback_overall_analysis                                              *)
(***************************************************************************)
\* The criteria of an analysis reported by the collaborator are not
\* interpreted by the engine; those of the fallback are modelled.
Analysis(has_fields, confidence, source) ==
    [has_fields |-> has_fields, confidence |-> confidence, source |-> source,
     criteria |-> None]

\* Mutant: the cap of line 324 removed.
NoCap(confidence) == confidence

\* Line 324: min(1.0, confidence)
CapAtOne(confidence) == FMin(F(ONE), confidence)

\* Mutant: the single-system penalty of line 320 left out.
CombineNoPenalty(citibank_match, concur_match) ==
    LET has_citibank == ~IsNone(citibank_match)
        has_concur == ~IsNone(concur_match)
        citibank_conf == IF has_citibank THEN Val(citibank_match).confidence ELSE FZero
        concur_conf == IF has_concur THEN Val(concur_match).confidence ELSE FZero
    IN  IF has_citibank /\ has_concur THEN FBoost(citibank_conf, concur_conf)
        ELSE IF has_citibank \/ has_concur
             THEN FMax(citibank_conf, concur_conf)
             ELSE FZero

\* Lines 310-322.
CombineCode(citibank_match, concur_match) ==
    LET has_citibank == ~IsNone(citibank_match)
        has_concur == ~IsNone(concur_match)
        citibank_conf == IF has_citibank THEN Val(citibank_match).confidence ELSE FZero
        concur_conf == IF has_concur THEN Val(concur_match).confidence ELSE FZero
    IN  IF has_citibank /\ has_concur THEN FBoost(citibank_conf, concur_conf)
        ELSE IF has_citibank \/ has_concur
             THEN FPenalty(FMax(citibank_conf, concur_conf))
             ELSE FZero

\* Lines 328-335: the criteria summary; null is None.
FallbackCriteria(citibank_match, concur_match, confidence) ==
    LET has_citibank == ~IsNone(citibank_match)
        has_concur == ~IsNone(concur_match)
    IN  [has_citibank_match |-> has_citibank,
         has_concur_match |-> has_concur,
         citibank_confidence |->
            IF has_citibank THEN Some(Val(citibank_match).confidence) ELSE None,
         concur_confidence |->
            IF has_concur THEN Some(Val(concur_match).confidence) ELSE None,
         cross_system_consistency |->
            IF has_citibank /\ has_concur THEN F(7000) ELSE F(5000),
         overall_quality |-> confidence]

FallbackOverallAnalysis(citibank_match, concur_match) ==
    LET confidence == CapAtOne(CombineCode(citibank_match, concur_match))
    IN  [Analysis(TRUE, confidence, "fallback") EXCEPT
            !.criteria = Some(FallbackCriteria(citibank_match, concur_match, confidence))]

(***************************************************************************)
(* _analyze_overall_match                                                  *)
(***************************************************************************)
\* json.dumps(match) at lines 183 and 186, outside the try block, raises
\* TypeError on a datetime inside the matched transaction.
Serializable(match) ==
    IsNone(match) \/ Val(match).transaction.transaction_date.kind # "datetime"

PromptRaises(citibank_match, concur_match) ==
    ~Serializable(citibank_match) \/ ~Serializable(concur_match)

AnalyzeOverallMatch(citibank_match, concur_match, response) ==
    IF PromptRaises(citibank_match, concur_match)
    THEN [raised |-> TRUE, called |-> FALSE, analysis |-> Analysis(FALSE, FZero, "none")]
    ELSE [raised |-> FALSE, called |-> TRUE,
          analysis |->
            CASE response.kind \in {"exception", "nonjson"} ->
                   FallbackOverallAnalysis(citibank_match, concur_match)
              [] response.kind = "nofields" -> Analysis(FALSE, FZero, "llm")
              [] response.kind = "json" -> Analysis(TRUE, response.confidence, "llm")]

(***************************************************************************)
(* Decision made by match_expenses_for_event, lines 118-126.               *)
(***************************************************************************)
\* Mutant: the confirmation boundary made exclusive.
ClassifyExclusive(overall_confidence) ==
    IF FGt(overall_confidence, F(8000)) THEN "confirmed"
    ELSE IF FGe(overall_confidence, F(6000)) THEN "pending"
    ELSE "rejected"

\* Mutant: the second comparison written the wrong way round.
ClassifyReversed(overall_confidence) ==
    IF FGe(overall_confidence, F(8000)) THEN "confirmed"
    ELSE IF FGe(F(6000), overall_confidence) THEN "pending"
    ELSE "rejected"

Classify(overall_confidence) ==
    IF FGe(overall_confidence, F(8000)) THEN "confirmed"
    ELSE IF FGe(overall_confidence, F(6000)) THEN "pending"
    ELSE "rejected"

(***************************************************************************)
(* State.                                                                  *)
(***************************************************************************)
VARIABLES
    extracted_expenses,     \* the batch given to match_expenses
    citibank_transactions,  \* candidates of the card feed
    concur_transactions,    \* candidates of the expense system
    date_tolerance_days,    \* settings.DATE_TOLERANCE_DAYS as configured
    pc,                     \* position in match_expenses_for_event / match_expenses
    i,                      \* index of the expense the loop of match_expenses is at
    citibank_match,         \* outcome of the current expense in the card feed
    concur_match,           \* outcome of the current expense in the expense system
    overall_analysis,       \* result of _analyze_overall_match for the current expense
    matches,                \* the list match_expenses builds
    llm_response,           \* the collaborator's answer to the latest call
    llm_calls,              \* collaborator calls made for the current expense, per stage
    error,                  \* where the exception that left match_expenses was raised:
                            \* "citibank_match"/"concur_match" (the fallback matcher),
                            \* "prompt" (json.dumps), "keyerror" (result assembly)
    records,                \* ExpenseMatch rows added by match_expenses_for_event
    stub,                   \* a stubbed collaborator: its response to each prompt
    parked,                 \* the frame of a second invocation of match_expenses
                            \* on the same engine while the first one is running
    participants,           \* number of participants of the event
    split,                  \* what split_expenses_for_event computed and returned
    log,                    \* status of the ProcessingLog entry of the latest call of
                            \* each handler ("none" before any call)
    earlier,                \* ExpenseMatch rows committed by earlier calls of
                            \* match_expenses_for_event for the event, one list per call
    ingestion               \* process_excel_files at work on one file: the sheet, the
                            \* position, the rows normalised and stored, the report

vars == <<extracted_expenses, citibank_transactions, concur_transactions,
          date_tolerance_days, pc, i, citibank_match, concur_match,
          overall_analysis, matches, llm_response, llm_calls, error, records,
          stub, parked, participants, split, log, earlier, ingestion>>

\* State that match_expenses never touches.
others == <<stub, parked, participants, split, log, earlier, ingestion>>

\* State that match_expenses_for_event leaves alone when it returns.
untouched == <<stub, parked, participants, split, earlier, ingestion>>

NoStub == <<>>

\* No file is being ingested.
NotIngesting ==
    [file_type |-> "citibank", df |-> <<>>, pc |-> "idle", transactions |-> <<>>,
     stored |-> <<>>, log |-> "none", result |-> None]
NoFrame == <<>>
NoSplit == [status |-> "idle", total_expenses |-> <<>>, total_amount |-> 0]
NoLog == [matching |-> "none", splitting |-> "none"]
\* match_expenses_for_event, lines 38-47: the entry is added with status
\* "started" before the rows are read and match_expenses is entered.
StartedLog == [matching |-> "started", splitting |-> "none"]

inputs == <<extracted_expenses, citibank_transactions, concur_transactions,
            date_tolerance_days>>

NoCalls == [citibank |-> 0, concur |-> 0, overall |-> 0]
NoAnalysis == Analysis(FALSE, FZero, "none")

Init ==
    /\ extracted_expenses \in ExpenseBatches
    /\ citibank_transactions \in SeqsUpTo(TransactionFixtures, MaxCands)
    /\ concur_transactions \in SeqsUpTo(TransactionFixtures, MaxCands)
    /\ date_tolerance_days = DATE_TOLERANCE_DAYS
    /\ pc = "start"
    /\ i = 1
    /\ citibank_match = None
    /\ concur_match = None
    /\ overall_analysis = NoAnalysis
    /\ matches = <<>>
    /\ llm_response = NotCalled
    /\ llm_calls = NoCalls
    /\ error = "none"
    /\ records = <<>>
    /\ stub = NoStub
    /\ parked = NoFrame
    /\ participants = 0
    /\ split = NoSplit
    /\ log = StartedLog
    /\ earlier = <<>>
    /\ ingestion = NotIngesting

\* Mutant: the result list kept on the engine, so that a call starts from
\* the list the other call has built.
SharedMatches == IF parked = NoFrame THEN <<>> ELSE parked.matches

\* Line 38: matches = []
NewMatches == <<>>

\* match_expenses is entered: matches = [] and the loop starts.
Begin ==
    /\ pc = "start"
    /\ pc' = IF extracted_expenses = <<>> THEN "returned" ELSE "citibank"
    /\ matches' = NewMatches
    /\ UNCHANGED <<inputs, others, i, citibank_match, concur_match, overall_analysis,
                   llm_response, llm_calls, error, records>>

\* Mutant: the except branch of _find_best_llm_match calls the collaborator
\* once more before it falls back.
FindCitibankRetrying(responses) ==
    /\ pc = "citibank"
    /\ \E response \in responses :
         \E r \in {FindBestLLMMatch(extracted_expenses[i], citibank_transactions,
                                     response, date_tolerance_days)} :
             /\ citibank_match' = IF r.fell_back /\ llm_calls.citibank = 0
                                  THEN citibank_match ELSE r.match
             /\ llm_response' = IF r.called THEN response ELSE NotCalled
             /\ llm_calls' = [llm_calls EXCEPT !.citibank = @ + (IF r.called THEN 1 ELSE 0)]
             /\ pc' = IF r.fell_back /\ llm_calls.citibank = 0 THEN "citibank"
                      ELSE IF r.raised THEN "raised" ELSE "concur"
             /\ error' = IF r.raised /\ ~(r.fell_back /\ llm_calls.citibank = 0)
                         THEN "citibank_match" ELSE error
    /\ UNCHANGED <<inputs, others, i, concur_match, overall_analysis, matches, records>>

\* Line 42: citibank_match = self._find_best_llm_match(expense, citibank_transactions, ...)
FindCitibankOn(responses) ==
    /\ pc = "citibank"
    /\ \E response \in responses :
         \E r \in {FindBestLLMMatch(extracted_expenses[i], citibank_transactions,
                                     response, date_tolerance_days)} :
             /\ citibank_match' = r.match
             /\ llm_response' = IF r.called THEN response ELSE NotCalled
             /\ llm_calls' = [llm_calls EXCEPT !.citibank = @ + (IF r.called THEN 1 ELSE 0)]
             /\ pc' = IF r.raised THEN "raised" ELSE "concur"
             /\ error' = IF r.raised THEN "citibank_match" ELSE error
    /\ UNCHANGED <<inputs, others, i, concur_match, overall_analysis, matches, records>>

FindCitibank == FindCitibankOn(MatchResponses)

\* Line 43: concur_match = self._find_best_llm_match(expense, concur_transactions, ...)
FindConcurOn(responses) ==
    /\ pc = "concur"
    /\ \E response \in responses :
         \E r \in {FindBestLLMMatch(extracted_expenses[i], concur_transactions,
                                     response, date_tolerance_days)} :
             /\ concur_match' = r.match
             /\ llm_response' = IF r.called THEN response ELSE NotCalled
             /\ llm_calls' = [llm_calls EXCEPT !.concur = @ + (IF r.called THEN 1 ELSE 0)]
             /\ pc' = IF r.raised THEN "raised" ELSE "overall"
             /\ error' = IF r.raised THEN "concur_match" ELSE error
    /\ UNCHANGED <<inputs, others, i, citibank_match, overall_analysis, matches, records>>

FindConcur == FindConcurOn(MatchResponses)

\* Line 46: overall_analysis = self._analyze_overall_match(expense, citibank_match, concur_match)
AnalyzeOverallOn(responses) ==
    /\ pc = "overall"
    /\ \E response \in responses :
         \E r \in {AnalyzeOverallMatch(citibank_match, concur_match, response)} :
             /\ overall_analysis' = r.analysis
             /\ llm_response' = IF r.called THEN response ELSE NotCalled
             /\ llm_calls' = [llm_calls EXCEPT !.overall = @ + (IF r.called THEN 1 ELSE 0)]
             /\ pc' = IF r.raised THEN "raised" ELSE "append"
             /\ error' = IF r.raised THEN "prompt" ELSE error
    /\ UNCHANGED <<inputs, others, i, citibank_match, concur_match, matches, records>>

AnalyzeOverall == AnalyzeOverallOn(OverallResponses)

\* Mutant: a result that carries the overall confidence of the expense
\* before it.
MatchResultStale ==
    [extracted_expense |-> extracted_expenses[i],
     citibank_match |-> citibank_match,
     concur_match |-> concur_match,
     overall_confidence |-> IF matches = <<>> THEN overall_analysis.confidence
                            ELSE matches[Len(matches)].overall_confidence,
     match_criteria |-> overall_analysis.criteria,
     llm_reasoning |-> overall_analysis.source]

\* Lines 48-57: the result is assembled and appended; overall_analysis["confidence"]
\* raises KeyError when the collaborator's JSON lacks the field.  The loop then
\* moves to the next expense or match_expenses returns.
MatchResult ==
    [extracted_expense |-> extracted_expenses[i],
     citibank_match |-> citibank_match,
     concur_match |-> concur_match,
     overall_confidence |-> overall_analysis.confidence,
     match_criteria |-> overall_analysis.criteria,
     llm_reasoning |-> overall_analysis.source]

AppendResult ==
    /\ pc = "append"
    /\ IF ~overall_analysis.has_fields
       THEN /\ pc' = "raised"
            /\ error' = "keyerror"
            /\ UNCHANGED <<i, matches, citibank_match, concur_match,
                           overall_analysis, llm_calls>>
       ELSE /\ matches' = Append(matches, MatchResult)
            /\ i' = i + 1
            /\ pc' = IF i = Len(extracted_expenses) THEN "returned" ELSE "citibank"
            /\ citibank_match' = None
            /\ concur_match' = None
            /\ overall_analysis' = NoAnalysis
            /\ llm_calls' = NoCalls
            /\ error' = error
    /\ UNCHANGED <<inputs, others, llm_response, records>>

\* match_expenses_for_event, lines 114-145: one iteration of the storing loop.
MatchRecord(match) ==
    [extracted_expense_id |-> match.extracted_expense.id,
     citibank_transaction_id |->
        IF IsNone(match.citibank_match) THEN None
        ELSE Some(Val(match.citibank_match).transaction.id),
     concur_transaction_id |->
        IF IsNone(match.concur_match) THEN None
        ELSE Some(Val(match.concur_match).transaction.id),
     match_confidence |-> match.overall_confidence,
     llm_reasoning |-> match.llm_reasoning,
     match_status |-> Classify(match.overall_confidence)]

StoreMatch ==
    /\ pc = "returned"
    /\ Len(records) < Len(matches)
    /\ records' = Append(records, MatchRecord(matches[Len(records) + 1]))
    /\ UNCHANGED <<inputs, others, pc, i, citibank_match, concur_match, overall_analysis,
                   matches, llm_response, llm_calls, error>>

\* Lines 147-173: commit, mark the log entry completed and return the summary.
Complete ==
    /\ pc = "returned"
    /\ Len(records) = Len(matches)
    /\ pc' = "completed"
    /\ log' = [log EXCEPT !.matching = "completed"]
    /\ UNCHANGED <<inputs, untouched, i, citibank_match, concur_match, overall_analysis,
                   matches, llm_response, llm_calls, error, records>>

\* Lines 175-187: the except branch of match_expenses_for_event marks the
\* log entry and returns the error reply.
HandlerError ==
    /\ pc = "raised"
    /\ pc' = "error"
    /\ log' = [log EXCEPT !.matching = "error"]
    /\ UNCHANGED <<inputs, untouched, i, citibank_match, concur_match, overall_analysis,
                   matches, llm_response, llm_calls, error, records>>

Next ==
    \/ Begin
    \/ FindCitibank
    \/ FindConcur
    \/ AnalyzeOverall
    \/ AppendResult
    \/ StoreMatch
    \/ Complete
    \/ HandlerError

Spec == Init /\ [][Next]_vars

(***************************************************************************)
(* The deterministic path: the collaborator is unavailable, every call to  *)
(* it raises, and both per-system matches and the overall analysis are     *)
(* computed by the fallback functions.  The inputs are those of            *)
(* examples/matching_demo_simple.py (dates are "%Y-%m-%d" strings), with   *)
(* variants of its transactions on other dates.  A transaction_id is       *)
(* written as the sequence of the digits that end it.                      *)
(***************************************************************************)
MaxListed == 2

MarriottDowntownNYC ==
    <<"M", "a", "r", "r", "i", "o", "t", "t", " ", "D", "o", "w", "n", "t", "o", "w", "n",
      " ", "N", "Y", "C">>
MarriottHotels ==
    <<"M", "a", "r", "r", "i", "o", "t", "t", " ", "H", "o", "t", "e", "l", "s">>
MarriottInternational ==
    <<"M", "a", "r", "r", "i", "o", "t", "t", " ", "I", "n", "t", "e", "r", "n", "a", "t",
      "i", "o", "n", "a", "l">>
YellowCabCo == <<"Y", "e", "l", "l", "o", "w", " ", "C", "a", "b", " ", "C", "o">>
YellowCab == <<"Y", "E", "L", "L", "O", "W", " ", "C", "A", "B">>
UberTechnologies ==
    <<"U", "b", "e", "r", " ", "T", "e", "c", "h", "n", "o", "l", "o", "g", "i", "e", "s">>
BurgerKing == <<"B", "u", "r", "g", "e", "r", " ", "K", "i", "n", "g">>

DemoExpenses ==
    {[id |-> 1, amount |-> Some(28550), currency |-> "USD",
      expense_date |-> Date("str", 15), vendor_name |-> Some(MarriottDowntownNYC)],
     [id |-> 3, amount |-> Some(15000), currency |-> "USD",
      expense_date |-> Date("str", 14), vendor_name |-> Some(YellowCabCo)],
     [id |-> 5, amount |-> Some(2345), currency |-> "USD",
      expense_date |-> Date("str", 15), vendor_name |-> Some(UberTechnologies)],
     [id |-> 6, amount |-> None, currency |-> "USD",
      expense_date |-> Date("str", 15), vendor_name |-> Some(UberTechnologies)]}

DemoTransactions ==
    {[id |-> 101, transaction_id |-> <<1, 0, 1>>, amount |-> Some(28550), currency |-> "USD",
      transaction_date |-> Date("str", 15), vendor_name |-> Some(MarriottHotels)],
     [id |-> 201, transaction_id |-> <<2, 0, 1>>, amount |-> Some(28550), currency |-> "USD",
      transaction_date |-> Date("str", 15), vendor_name |-> Some(MarriottInternational)],
     [id |-> 103, transaction_id |-> <<1, 0, 3>>, amount |-> Some(14875), currency |-> "USD",
      transaction_date |-> Date("str", 14), vendor_name |-> Some(YellowCab)],
     [id |-> 104, transaction_id |-> <<1, 0, 4>>, amount |-> Some(2345), currency |-> "USD",
      transaction_date |-> Date("str", 15), vendor_name |-> Some(BurgerKing)],
     [id |-> 105, transaction_id |-> <<1, 0, 5>>, amount |-> Some(28550), currency |-> "USD",
      transaction_date |-> Date("str", 25), vendor_name |-> Some(MarriottHotels)],
     [id |-> 106, transaction_id |-> <<1, 0, 6>>, amount |-> Some(28550), currency |-> "USD",
      transaction_date |-> Date("str", 5), vendor_name |-> Some(MarriottInternational)]}

\* Candidate lists: the rows of one event, each transaction listed once.
Listings(S, n) ==
    {s \in SeqsUpTo(S, n) : \A a, b \in 1..Len(s) : a # b => s[a] # s[b]}

\* client.chat.completions.create raises on every call.
Unavailable == {Response("exception", None, FZero)}

InitFallback ==
    /\ extracted_expenses \in {<<>>} \cup {<<e>> : e \in DemoExpenses}
    /\ citibank_transactions \in Listings(DemoTransactions, MaxListed)
    /\ concur_transactions \in Listings(DemoTransactions, MaxListed)
    /\ date_tolerance_days = DATE_TOLERANCE_DAYS
    /\ pc = "start"
    /\ i = 1
    /\ citibank_match = None
    /\ concur_match = None
    /\ overall_analysis = NoAnalysis
    /\ matches = <<>>
    /\ llm_response = NotCalled
    /\ llm_calls = NoCalls
    /\ error = "none"
    /\ records = <<>>
    /\ stub = NoStub
    /\ parked = NoFrame
    /\ participants = 0
    /\ split = NoSplit
    /\ log = StartedLog
    /\ earlier = <<>>
    /\ ingestion = NotIngesting

FindCitibankUnavailable == FindCitibankOn(Unavailable)
FindConcurUnavailable == FindConcurOn(Unavailable)
AnalyzeOverallUnavailable == AnalyzeOverallOn(Unavailable)

NextFallback ==
    \/ Begin
    \/ FindCitibankUnavailable
    \/ FindConcurUnavailable
    \/ AnalyzeOverallUnavailable
    \/ AppendResult
    \/ StoreMatch
    \/ Complete
    \/ HandlerError

FallbackSpec == InitFallback /\ [][NextFallback]_vars

(***************************************************************************)
(* An event with several expenses: match_expenses_for_event followed by    *)
(* split_expenses_for_event (agents/expense_splitting_agent.py), as the    *)
(* orchestrator runs them.  The collaborator finds no candidate in either  *)
(* system and answers the overall-analysis prompt with a confidence of its *)
(* own, or fails.                                                          *)
(***************************************************************************)
MaxBatch == 2
MaxParticipants == 1

\* ExtractedExpense.amount is not nullable.
EventExpenses == {e \in DemoExpenses : ~IsNone(e.amount)}

NoMatchAnswers == {Response("json", None, FZero)}

EventOverallResponses ==
    {Response("exception", None, FZero), Response("nofields", None, FZero)}
      \cup {Response("json", None, c) : c \in {F(5999), F(6000), F(7999), F(8000)}}

\* Mutant: the match_status filter of line 73 left out.
AllMatches(rows) == rows

\* Lines 71-74: the ExpenseMatch rows of the event whose status is confirmed.
ConfirmedMatches(rows) == SelectSeq(rows, LAMBDA r : r.match_status = "confirmed")

\* Line 88-90: the ExtractedExpense row with the given id.
ExpenseById(expenses, id) ==
    CHOOSE e \in {expenses[k] : k \in 1..Len(expenses)} : e.id = id

\* Lines 84-103: total_expenses and total_amount over the confirmed matches.
RECURSIVE Totals(_, _, _, _)
Totals(expenses, confirmed_matches, k, acc) ==
    IF k > Len(confirmed_matches) THEN acc
    ELSE LET expense == ExpenseById(expenses, confirmed_matches[k].extracted_expense_id)
         IN  Totals(expenses, confirmed_matches, k + 1,
                    [total_expenses |-> Append(acc.total_expenses, expense.id),
                     total_amount |-> acc.total_amount + Val(expense.amount)])

\* split_expenses_for_event: the early returns of lines 63-68 and 76-81, the
\* totals, and the call self._equal_split(...) of line 107, which raises
\* NameError (self is not defined in the nested function) and is reported by
\* the except branch of lines 134-146.
SplitExpensesForEvent(expenses, rows, participant_count) ==
    IF participant_count = 0
    THEN [status |-> "no_participants", total_expenses |-> <<>>, total_amount |-> 0]
    ELSE IF ConfirmedMatches(rows) = <<>>
    THEN [status |-> "no_confirmed", total_expenses |-> <<>>, total_amount |-> 0]
    ELSE LET t == Totals(expenses, ConfirmedMatches(rows), 1,
                         [total_expenses |-> <<>>, total_amount |-> 0])
         IN  [status |-> "name_error", total_expenses |-> t.total_expenses,
              total_amount |-> t.total_amount]

InitEvent ==
    /\ extracted_expenses \in Listings(EventExpenses, MaxBatch)
    /\ citibank_transactions \in SeqsUpTo({CHOOSE t \in DemoTransactions : t.id = 101}, 1)
    /\ concur_transactions \in SeqsUpTo({CHOOSE t \in DemoTransactions : t.id = 201}, 1)
    /\ date_tolerance_days = DATE_TOLERANCE_DAYS
    /\ pc = "start"
    /\ i = 1
    /\ citibank_match = None
    /\ concur_match = None
    /\ overall_analysis = NoAnalysis
    /\ matches = <<>>
    /\ llm_response = NotCalled
    /\ llm_calls = NoCalls
    /\ error = "none"
    /\ records = <<>>
    /\ stub = NoStub
    /\ parked = NoFrame
    /\ participants \in 0..MaxParticipants
    /\ split = NoSplit
    /\ log = StartedLog
    /\ earlier = <<>>
    /\ ingestion = NotIngesting

FindCitibankNoMatch == FindCitibankOn(NoMatchAnswers)
FindConcurNoMatch == FindConcurOn(NoMatchAnswers)
AnalyzeOverallEvent == AnalyzeOverallOn(EventOverallResponses)

\* The orchestrator runs the splitting step after a completed matching step.
RECURSIVE FlattenRows(_)
FlattenRows(lists) ==
    IF lists = <<>> THEN <<>> ELSE Head(lists) \o FlattenRows(Tail(lists))

\* The ExpenseMatch rows of the event: those of earlier calls of
\* match_expenses_for_event and those of the latest one.
EventRows == FlattenRows(earlier) \o records

\* The ProcessingLog entry of split_expenses_for_event when the call
\* returns: added with status "started" at lines 38-47; the early returns of
\* lines 63-68 and 76-81 leave it as it is, the except branch of lines
\* 134-140 sets it to "error".
SplitLogStatus(status) ==
    IF status = "name_error" THEN "error" ELSE "started"

SplitExpenses ==
    /\ pc = "completed"
    /\ split.status = "idle"
    /\ split' = SplitExpensesForEvent(extracted_expenses, EventRows, participants)
    /\ log' = [log EXCEPT !.splitting = SplitLogStatus(split'.status)]
    /\ UNCHANGED <<inputs, pc, i, citibank_match, concur_match, overall_analysis,
                   matches, llm_response, llm_calls, error, records,
                   stub, parked, participants, earlier, ingestion>>

NextEvent ==
    \/ Begin
    \/ FindCitibankNoMatch
    \/ FindConcurNoMatch
    \/ AnalyzeOverallEvent
    \/ AppendResult
    \/ StoreMatch
    \/ Complete
    \/ HandlerError
    \/ SplitExpenses

EventSpec == InitEvent /\ [][NextEvent]_vars

(***************************************************************************)
(* Two invocations of match_expenses on one engine, each for one expense,  *)
(* with the same candidate lists.  The variables extracted_expenses, pc,   *)
(* i, citibank_match, concur_match, overall_analysis, matches,             *)
(* llm_response, llm_calls and error are the frame of the invocation that  *)
(* is running; parked is the frame of the other one.  A context switch     *)
(* exchanges the two, at any point.  The collaborator is a stub: its       *)
(* responses to the three prompts made for an expense are fixed per        *)
(* expense.                                                                *)
(***************************************************************************)
CallExpenses == {e \in ExpenseFixtures : e.id \in {1, 3, 5}}

StubMatchResponses ==
    {Response("exception", None, FZero), Response("json", Some(0), F(9500))}

StubOverallResponses ==
    {Response("exception", None, FZero), Response("json", None, F(8000))}

StubAnswers ==
    [citibank : StubMatchResponses, concur : StubMatchResponses,
     overall : StubOverallResponses]

Frame(expenses, position, index, cmatch, nmatch, analysis, results, response, calls, err) ==
    [extracted_expenses |-> expenses, pc |-> position, i |-> index,
     citibank_match |-> cmatch, concur_match |-> nmatch,
     overall_analysis |-> analysis, matches |-> results,
     llm_response |-> response, llm_calls |-> calls, error |-> err]

\* The frame of a call of match_expenses that has not started.
NewFrame(expenses) ==
    Frame(expenses, "start", 1, None, None, NoAnalysis, <<>>, NotCalled, NoCalls, "none")

RunningFrame ==
    Frame(extracted_expenses, pc, i, citibank_match, concur_match,
          overall_analysis, matches, llm_response, llm_calls, error)

InitTwoCalls ==
    /\ \E e1, e2 \in CallExpenses :
          /\ extracted_expenses = <<e1>>
          /\ parked = NewFrame(<<e2>>)
          /\ stub \in [{e1.id, e2.id} -> StubAnswers]
    /\ citibank_transactions \in SeqsUpTo(TransactionFixtures, 1)
    /\ concur_transactions \in SeqsUpTo(TransactionFixtures, 1)
    /\ date_tolerance_days = DATE_TOLERANCE_DAYS
    /\ pc = "start"
    /\ i = 1
    /\ citibank_match = None
    /\ concur_match = None
    /\ overall_analysis = NoAnalysis
    /\ matches = <<>>
    /\ llm_response = NotCalled
    /\ llm_calls = NoCalls
    /\ error = "none"
    /\ records = <<>>
    /\ participants = 0
    /\ split = NoSplit
    /\ log = NoLog
    /\ earlier = <<>>
    /\ ingestion = NotIngesting

FindCitibankStub == FindCitibankOn({stub[extracted_expenses[i].id].citibank})
FindConcurStub == FindConcurOn({stub[extracted_expenses[i].id].concur})
AnalyzeOverallStub == AnalyzeOverallOn({stub[extracted_expenses[i].id].overall})

\* Mutant: the per-system outcome kept in a field of the engine instead of a
\* local of match_expenses, so that a resumed call finds the other call's.
EngineFieldMatch(own, current) == current

\* Lines 42-43: citibank_match and concur_match are locals; a resumed call
\* finds the value it left.
ResumedMatch(own, current) == own

\* The other invocation is scheduled.
Switch ==
    /\ parked # NoFrame
    /\ parked' = RunningFrame
    /\ extracted_expenses' = parked.extracted_expenses
    /\ pc' = parked.pc
    /\ i' = parked.i
    /\ citibank_match' = ResumedMatch(parked.citibank_match, citibank_match)
    /\ concur_match' = ResumedMatch(parked.concur_match, concur_match)
    /\ overall_analysis' = parked.overall_analysis
    /\ matches' = parked.matches
    /\ llm_response' = parked.llm_response
    /\ llm_calls' = parked.llm_calls
    /\ error' = parked.error
    /\ UNCHANGED <<citibank_transactions, concur_transactions, date_tolerance_days,
                   records, stub, participants, split, log, earlier, ingestion>>

NextTwoCalls ==
    \/ Begin
    \/ FindCitibankStub
    \/ FindConcurStub
    \/ AnalyzeOverallStub
    \/ AppendResult
    \/ Switch

TwoCallsSpec == InitTwoCalls /\ [][NextTwoCalls]_vars

\* Lines 38-59 for a batch of one expense, run on its own: where the call
\* ends and what it returns.
RunAlone(expense, answers) ==
    LET c == FindBestLLMMatch(expense, citibank_transactions, answers.citibank,
                              date_tolerance_days)
        n == FindBestLLMMatch(expense, concur_transactions, answers.concur,
                              date_tolerance_days)
        a == AnalyzeOverallMatch(c.match, n.match, answers.overall)
    IN  IF c.raised THEN [pc |-> "raised", error |-> "citibank_match", matches |-> <<>>]
        ELSE IF n.raised THEN [pc |-> "raised", error |-> "concur_match", matches |-> <<>>]
        ELSE IF a.raised THEN [pc |-> "raised", error |-> "prompt", matches |-> <<>>]
        ELSE IF ~a.analysis.has_fields
             THEN [pc |-> "raised", error |-> "keyerror", matches |-> <<>>]
        ELSE [pc |-> "returned", error |-> "none",
              matches |-> <<[extracted_expense |-> expense,
                             citibank_match |-> c.match,
                             concur_match |-> n.match,
                             overall_confidence |-> a.analysis.confidence,
                             match_criteria |-> a.analysis.criteria,
                             llm_reasoning |-> a.analysis.source]>>]

(***************************************************************************)
(* The scorer on its own.  One expense is scored against one card-feed     *)
(* transaction on the deterministic path; the two differ in amount (equal, *)
(* at the tolerance, between once and five times the tolerance, at five    *)
(* times and beyond; zero and negative amounts) and in date (up to         *)
(* MaxDayDiff days before or after, as a "%Y-%m-%d" string or as the       *)
(* datetime object the handler passes).  Vendor and currency agree.        *)
(***************************************************************************)
MaxDayDiff == 4

Uber == <<"U", "b", "e", "r">>
ExpenseDay == 15

ScorerAmounts == {-5000, 0, 10000}
ScorerOtherAmounts == {-5000, 0, 9400, 9500, 9700, 9900, 10000, 10100, 10300, 10500, 10600}

ScorerExpenses ==
    {[id |-> 1, amount |-> Some(a), currency |-> "USD",
      expense_date |-> Date(kind, ExpenseDay), vendor_name |-> Some(Uber)] :
        a \in ScorerAmounts, kind \in {"str", "datetime"}}

ScorerTransactions ==
    {[id |-> 1, amount |-> Some(a), currency |-> "USD",
      transaction_date |-> Date(kind, day), vendor_name |-> Some(Uber)] :
        a \in ScorerOtherAmounts, kind \in {"str", "datetime"},
        day \in (ExpenseDay - MaxDayDiff)..(ExpenseDay + MaxDayDiff)}

InitScorer ==
    /\ extracted_expenses \in {<<e>> : e \in ScorerExpenses}
    /\ citibank_transactions \in {<<t>> : t \in ScorerTransactions}
    /\ concur_transactions = <<>>
    /\ date_tolerance_days = DATE_TOLERANCE_DAYS
    /\ pc = "start"
    /\ i = 1
    /\ citibank_match = None
    /\ concur_match = None
    /\ overall_analysis = NoAnalysis
    /\ matches = <<>>
    /\ llm_response = NotCalled
    /\ llm_calls = NoCalls
    /\ error = "none"
    /\ records = <<>>
    /\ stub = NoStub
    /\ parked = NoFrame
    /\ participants = 0
    /\ split = NoSplit
    /\ log = StartedLog
    /\ earlier = <<>>
    /\ ingestion = NotIngesting

ScorerSpec == InitScorer /\ [][NextFallback]_vars

(***************************************************************************)
(* The two handlers of an event, called one after the other and            *)
(* match_expenses_for_event called again for the same event.  A call of    *)
(* match_expenses_for_event starts by adding its ProcessingLog entry; the  *)
(* per-system matches are computed by the fallback (the collaborator is    *)
(* unavailable for them) and the overall analysis is the collaborator's or *)
(* the fallback's.                                                         *)
(***************************************************************************)
MaxInvocations == 2

HandlerExpenses == {e \in DemoExpenses : e.id \in {1, 3}}

HandlerOverallResponses ==
    {Response("exception", None, FZero), Response("nofields", None, FZero),
     Response("json", None, F(8000))}

InitHandlers ==
    /\ extracted_expenses \in Listings(HandlerExpenses, MaxBatch)
    /\ citibank_transactions \in SeqsUpTo({CHOOSE t \in DemoTransactions : t.id = 101}, 1)
    /\ concur_transactions \in SeqsUpTo({CHOOSE t \in DemoTransactions : t.id = 201}, 1)
    /\ date_tolerance_days = DATE_TOLERANCE_DAYS
    /\ pc = "entered"
    /\ i = 1
    /\ citibank_match = None
    /\ concur_match = None
    /\ overall_analysis = NoAnalysis
    /\ matches = <<>>
    /\ llm_response = NotCalled
    /\ llm_calls = NoCalls
    /\ error = "none"
    /\ records = <<>>
    /\ stub = NoStub
    /\ parked = NoFrame
    /\ participants \in 0..MaxParticipants
    /\ split = NoSplit
    /\ log = NoLog
    /\ earlier = <<>>
    /\ ingestion = NotIngesting

\* match_expenses_for_event, lines 24-104: the ProcessingLog entry is added
\* with status "started" and committed, the rows of the event are read and
\* match_expenses is about to be called.
StartMatching ==
    /\ pc = "entered"
    /\ pc' = "start"
    /\ log' = [log EXCEPT !.matching = "started"]
    /\ UNCHANGED <<inputs, untouched, i, citibank_match, concur_match, overall_analysis,
                   matches, llm_response, llm_calls, error, records>>

AnalyzeOverallHandlers == AnalyzeOverallOn(HandlerOverallResponses)

\* match_expenses_for_event is called again for the same event after a call
\* that completed: the ExpenseMatch rows it committed stay in the database
\* (nothing in the handler deletes or looks up existing rows).
Reinvoke ==
    /\ pc = "completed"
    /\ Len(earlier) + 1 < MaxInvocations
    /\ earlier' = Append(earlier, records)
    /\ records' = <<>>
    /\ matches' = <<>>
    /\ pc' = "entered"
    /\ i' = 1
    /\ llm_response' = NotCalled
    /\ UNCHANGED <<inputs, citibank_match, concur_match, overall_analysis, llm_calls,
                   error, stub, parked, participants, split, log, ingestion>>

NextHandlers ==
    \/ StartMatching
    \/ Begin
    \/ FindCitibankUnavailable
    \/ FindConcurUnavailable
    \/ AnalyzeOverallHandlers
    \/ AppendResult
    \/ StoreMatch
    \/ Complete
    \/ HandlerError
    \/ SplitExpenses
    \/ Reinvoke

HandlersSpec == InitHandlers /\ [][NextHandlers]_vars

(***************************************************************************)
(* process_excel_files at work on one file of the message.  The sheet is   *)
(* what pd.read_excel returned: one row per transaction, its Amount and    *)
(* Date cells being numbers, timestamps or text.  The transaction ids of a *)
(* sheet are distinct and the database accepts every row, so the inner     *)
(* except of process_excel_files (lines 99-111) is not entered.            *)
(***************************************************************************)
MaxRows == 2

Number(n) == [kind |-> "number", value |-> n]
Text(s) == [kind |-> "text", value |-> s]
Timestamp(d) == [kind |-> "timestamp", value |-> d]

\* Amount cells (in cents): a number, a text float() parses, a text it rejects.
AmountCells == {Number(28550), Text("285.50"), Text("N/A")}

\* Date cells (days of March 2024): a timestamp, a text pd.to_datetime
\* parses, a text it rejects.
DateCells == {Timestamp(15), Text("2024-03-15"), Text("not a date")}

\* float(row.get("Amount", 0)): None stands for the ValueError it raises.
ToFloat(cell) ==
    CASE cell.kind = "number" -> Some(cell.value)
      [] cell = Text("285.50") -> Some(28550)
      [] OTHER -> None

\* pd.to_datetime(row.get("Date")).to_pydatetime(): None stands for the
\* error it raises.
ToDatetime(cell) ==
    CASE cell.kind = "timestamp" -> Some(cell.value)
      [] cell = Text("2024-03-15") -> Some(15)
      [] OTHER -> None

\* The conversions of one row raise.
Raises(row) == IsNone(ToFloat(row.Amount)) \/ IsNone(ToDatetime(row.Date))

\* The dictionary _process_citibank_excel / _process_concur_excel builds of a row.
Transaction(row) ==
    [transaction_id |-> row.TransactionID,
     amount |-> Val(ToFloat(row.Amount)),
     transaction_date |-> Val(ToDatetime(row.Date))]

\* Sheets of up to MaxRows rows, the k-th row carrying transaction id k.
Sheets ==
    UNION {{[k \in 1..m |-> [TransactionID |-> k, Amount |-> cells[k][1],
                             Date |-> cells[k][2]]] :
               cells \in [1..m -> AmountCells \X DateCells]} : m \in 0..MaxRows}

FileTypes == {"citibank", "concur", "amex"}

\* Everything process_excel_files leaves alone.
matching == <<extracted_expenses, citibank_transactions, concur_transactions,
              date_tolerance_days, pc, i, citibank_match, concur_match,
              overall_analysis, matches, llm_response, llm_calls, error, records,
              stub, parked, participants, split, log, earlier>>

InitIngest ==
    /\ extracted_expenses = <<>>
    /\ citibank_transactions = <<>>
    /\ concur_transactions = <<>>
    /\ date_tolerance_days = DATE_TOLERANCE_DAYS
    /\ pc = "start"
    /\ i = 1
    /\ citibank_match = None
    /\ concur_match = None
    /\ overall_analysis = NoAnalysis
    /\ matches = <<>>
    /\ llm_response = NotCalled
    /\ llm_calls = NoCalls
    /\ error = "none"
    /\ records = <<>>
    /\ stub = NoStub
    /\ parked = NoFrame
    /\ participants = 0
    /\ split = NoSplit
    /\ log = NoLog
    /\ earlier = <<>>
    /\ \E file_type \in FileTypes, df \in Sheets :
          ingestion = [NotIngesting EXCEPT !.file_type = file_type, !.df = df,
                                           !.pc = "called"]

\* The ProcessingLog entry of the file is added with status "started".
StartIngestion ==
    /\ ingestion.pc = "called"
    /\ ingestion' = [ingestion EXCEPT !.log = "started", !.pc = "processing"]
    /\ UNCHANGED matching

\* process_excel_file reads the sheet and picks the normaliser of the file
\* type; for any other type it raises ValueError inside its own try, whose
\* except prints the error and returns [].
ProcessExcelFile ==
    /\ ingestion.pc = "processing"
    /\ ingestion' = IF ingestion.file_type \in {"citibank", "concur"}
                      THEN [ingestion EXCEPT !.pc = "normalising"]
                      ELSE [ingestion EXCEPT !.transactions = <<>>, !.pc = "storing"]
    /\ UNCHANGED matching

\* One turn of the loop of _process_citibank_excel / _process_concur_excel
\* on a row whose cells convert: its dictionary is appended.
NormaliseRow ==
    /\ ingestion.pc = "normalising"
    /\ Len(ingestion.transactions) < Len(ingestion.df)
    /\ LET row == ingestion.df[Len(ingestion.transactions) + 1] IN
          /\ ~Raises(row)
          /\ ingestion' = [ingestion EXCEPT
                              !.transactions = Append(@, Transaction(row))]
    /\ UNCHANGED matching

\* One turn of the loop on a row whose amount or date does not convert: the
\* exception leaves the normaliser with the list built so far and is caught
\* by the except of process_excel_file, which prints it and returns [].
NormaliseRaises ==
    /\ ingestion.pc = "normalising"
    /\ Len(ingestion.transactions) < Len(ingestion.df)
    /\ Raises(ingestion.df[Len(ingestion.transactions) + 1])
    /\ ingestion' = [ingestion EXCEPT !.transactions = <<>>, !.pc = "storing"]
    /\ UNCHANGED matching

\* The normaliser has gone through the sheet and returns its list.
ReturnTransactions ==
    /\ ingestion.pc = "normalising"
    /\ Len(ingestion.transactions) = Len(ingestion.df)
    /\ ingestion' = [ingestion EXCEPT !.pc = "storing"]
    /\ UNCHANGED matching

\* One turn of the storing loop of process_excel_files: a row of the file
\* type's table is added (none for a file type that is neither).
StoreTransaction ==
    /\ ingestion.pc = "storing"
    /\ Len(ingestion.stored) < Len(ingestion.transactions)
    /\ ingestion' = [ingestion EXCEPT
                        !.stored = Append(@, ingestion.transactions[Len(@) + 1])]
    /\ UNCHANGED matching

\* After the loop: commit, the log entry completed, the file reported as a
\* success with the number of rows stored.
ReportSuccess ==
    /\ ingestion.pc = "storing"
    /\ Len(ingestion.stored) = Len(ingestion.transactions)
    /\ ingestion' = [ingestion EXCEPT
                        !.log = "completed",
                        !.result = Some([status |-> "success",
                                         transactions_processed |-> Len(ingestion.stored)]),
                        !.pc = "returned"]
    /\ UNCHANGED matching

NextIngest ==
    \/ StartIngestion
    \/ ProcessExcelFile
    \/ NormaliseRow
    \/ NormaliseRaises
    \/ ReturnTransactions
    \/ StoreTransaction
    \/ ReportSuccess

IngestSpec == InitIngest /\ [][NextIngest]_vars

\* The confidences the rounding tables are applied to are those they cover.
TablesCover ==
    /\ \A m \in {citibank_match, concur_match} :
          ~IsNone(m) => Val(m).confidence \in ConfDomain

(***************************************************************************)
(* Properties.                                                             *)
(***************************************************************************)
Records == {records[k] : k \in 1..Len(records)}
Results == {matches[k] : k \in 1..Len(matches)}

\* C1: every stored match record is confirmed iff its confidence is >= 0.8,
\* pending iff 0.6 <= confidence < 0.8 and rejected iff confidence < 0.6; the
\* boundary values 0.8 and 0.6 belong to the upper status, 0.7999 and 0.5999
\* to the lower one.
C1_StatusFromConfidence ==
    \A r \in Records :
        LET c == r.match_confidence
        IN  /\ r.match_status = "confirmed" <=> FGe(c, F(8000))
            /\ r.match_status = "pending" <=> (FGe(c, F(6000)) /\ FLt(c, F(8000)))
            /\ r.match_status = "rejected" <=> FLt(c, F(6000))
            /\ c = F(8000) => r.match_status = "confirmed"
            /\ c = F(7999) => r.match_status = "pending"
            /\ c = F(6000) => r.match_status = "pending"
            /\ c = F(5999) => r.match_status = "rejected"

\* A record whose confidence is exactly 0.8 has been stored.
C1_Witness ==
    \E r \in Records : r.match_confidence = F(8000) /\ r.match_status = "confirmed"


Matched(m) == ~IsNone(m)
ConfidenceOf(m) == Val(m).confidence

\* C2 (as claimed): every result of match_expenses, whichever path produced
\* the overall analysis, carries min(1.0, average * 1.2) when both systems
\* matched, that system's confidence * 0.8 when exactly one matched and 0.0
\* when neither matched.
C2_RuleOnEveryPath ==
    \A m \in Results :
        m.overall_confidence =
            IF Matched(m.citibank_match) /\ Matched(m.concur_match)
            THEN FMin(F(ONE), FBoost(ConfidenceOf(m.citibank_match),
                                     ConfidenceOf(m.concur_match)))
            ELSE IF Matched(m.citibank_match)
                 THEN FPenalty(ConfidenceOf(m.citibank_match))
            ELSE IF Matched(m.concur_match)
                 THEN FPenalty(ConfidenceOf(m.concur_match))
            ELSE FZero

\* C2 (amended): every result whose overall analysis was produced by the
\* fallback carries min(1.0, average * 1.2) when both systems matched,
\* min(1.0, max(confidence, 0.0) * 0.8) when exactly one matched and 0.0 when
\* neither matched.
C2_RuleOnFallbackPath ==
    \A m \in Results :
        m.llm_reasoning = "fallback" =>
            m.overall_confidence =
                IF Matched(m.citibank_match) /\ Matched(m.concur_match)
                THEN FMin(F(ONE), FBoost(ConfidenceOf(m.citibank_match),
                                         ConfidenceOf(m.concur_match)))
                ELSE IF Matched(m.citibank_match)
                     THEN FMin(F(ONE), FPenalty(FMax(ConfidenceOf(m.citibank_match), FZero)))
                ELSE IF Matched(m.concur_match)
                     THEN FMin(F(ONE), FPenalty(FMax(ConfidenceOf(m.concur_match), FZero)))
                ELSE FZero

\* A result produced by the fallback for exactly one matching system, whose
\* confidence is positive, so that the penalty shows.
C2_Witness ==
    \E m \in Results :
        /\ m.llm_reasoning = "fallback"
        /\ Matched(m.citibank_match) # Matched(m.concur_match)
        /\ FGt(m.overall_confidence, FZero)

\* C3: the fallback reconciliation yields average * 1.2 capped at 1.0 when
\* both outcomes are non-null, max * 0.8 when exactly one is, 0.0 when both
\* are null, and never more than 1.0; when the collaborator is unavailable and
\* both candidate lists are empty the stored record has confidence 0.0 and
\* status rejected.
C3_FallbackReconciliation ==
    /\ (pc = "append" /\ overall_analysis.source = "fallback") =>
          LET a == IF Matched(citibank_match) THEN ConfidenceOf(citibank_match) ELSE FZero
              b == IF Matched(concur_match) THEN ConfidenceOf(concur_match) ELSE FZero
              c == overall_analysis.confidence
          IN  /\ overall_analysis.has_fields
              /\ FGe(F(ONE), c)
              /\ (Matched(citibank_match) /\ Matched(concur_match)) =>
                    c = (IF (a[1] + b[1]) * 6 > 10 * ONE THEN F(ONE) ELSE FBoost(a, b))
              /\ (Matched(citibank_match) # Matched(concur_match)) =>
                    c = FPenalty(FMax(a, b))
              /\ (~Matched(citibank_match) /\ ~Matched(concur_match)) => c = FZero
    /\ \A r \in Records :
          (/\ r.llm_reasoning = "fallback"
           /\ citibank_transactions = <<>>
           /\ concur_transactions = <<>>) =>
              (r.match_confidence = FZero /\ r.match_status = "rejected")

\* The fallback has reconciled two matches whose boosted average exceeds 1.0.
C3_Witness ==
    /\ pc = "append"
    /\ overall_analysis.source = "fallback"
    /\ Matched(citibank_match)
    /\ Matched(concur_match)
    /\ (ConfidenceOf(citibank_match)[1] + ConfidenceOf(concur_match)[1]) * 6 > 10 * ONE
    /\ overall_analysis.confidence = F(ONE)


CurrentExpense == extracted_expenses[i]

\* C4: the fallback path never fails: whatever the expense and the candidate
\* list (missing amount or vendor name, unparseable or missing dates, empty
\* lists), the fallback matcher returns an outcome without raising, so that
\* match_expenses is never left by an exception of the fallback.
C4_FallbackNeverFails ==
    error \notin {"citibank_match", "concur_match"}

\* The collaborator's answer to a per-system prompt cannot be used: the call
\* raised, the content is not JSON, fields are missing, or best_match_index
\* lies outside the candidate list.
Unusable(transactions, response) ==
    \/ response.kind \in {"exception", "nonjson", "nofields"}
    \/ /\ response.kind = "json"
       /\ ~IsNone(response.index)
       /\ (Val(response.index) < 0 \/ Val(response.index) >= Len(transactions))

\* C5: whenever the collaborator's answer to a per-system prompt cannot be
\* used, the outcome of the per-system match is the one the fallback matcher
\* computes for the same expense and candidates.
C5_FailureRecoveredByFallback ==
    /\ (pc = "concur" /\ Unusable(citibank_transactions, llm_response)) =>
          citibank_match =
            FallbackRuleBasedMatch(CurrentExpense, citibank_transactions,
                                   date_tolerance_days).match
    /\ (pc = "overall" /\ Unusable(concur_transactions, llm_response)) =>
          concur_match =
            FallbackRuleBasedMatch(CurrentExpense, concur_transactions,
                                   date_tolerance_days).match

\* C6: whenever the collaborator's overall-analysis response is unusable
\* (the call raised, the content is not JSON, or the JSON lacks the
\* confidence, criteria or reasoning fields), the fallback reconciliation is
\* used and match_expenses does not raise.
C6_MalformedOverallFallsBack ==
    /\ error # "keyerror"
    /\ (pc = "append" /\ llm_response.kind \in {"exception", "nonjson", "nofields"}) =>
          overall_analysis = FallbackOverallAnalysis(citibank_match, concur_match)

\* C7: a per-system outcome has no transaction iff its confidence is 0.0:
\* every outcome that carries a transaction has a confidence other than 0.0.
C7_NullInvariant ==
    \A m \in {citibank_match, concur_match} :
        Matched(m) => ConfidenceOf(m) # FZero

\* The best combined score of the fallback scorer over a candidate list.
BestScore(expense, transactions) ==
    BestFrom(expense, transactions, 1, <<None, FZero>>, date_tolerance_days)[2]

\* C8: the per-system matcher returns no transaction iff the best score is
\* below the acceptance floor 0.3: no returned match has a confidence below
\* 0.3, and on the fallback path a best score of 0.3 or more is returned.
C8_AcceptanceFloor ==
    /\ \A m \in {citibank_match, concur_match} :
          Matched(m) => FGe(ConfidenceOf(m), F(3000))
    /\ (/\ pc = "concur"
        /\ llm_response.kind = "exception"
        /\ FGe(BestScore(CurrentExpense, citibank_transactions), F(3000))) =>
          Matched(citibank_match)

\* C9: for an empty candidate list the per-system match returns no match,
\* does not raise and does not call the collaborator, for every expense.
C9_EmptyListNoCall ==
    /\ (pc \in {"concur", "overall", "append", "raised"} /\ citibank_transactions = <<>>) =>
          /\ citibank_match = None
          /\ llm_calls.citibank = 0
          /\ error # "citibank_match"
    /\ (pc \in {"overall", "append", "raised"} /\ concur_transactions = <<>>
          /\ error # "citibank_match") =>
          /\ concur_match = None
          /\ llm_calls.concur = 0
          /\ error # "concur_match"

\* Both per-system matches have been made on empty candidate lists, for an
\* expense without an amount.
C9_Witness ==
    /\ pc = "overall"
    /\ citibank_transactions = <<>>
    /\ concur_transactions = <<>>
    /\ IsNone(CurrentExpense.amount)

\* C10: the overall confidence of every result of match_expenses lies in
\* [0, 1], whatever confidences the collaborator reports.
C10_OverallInUnitInterval ==
    \A m \in Results :
        FGe(m.overall_confidence, FZero) /\ FGe(F(ONE), m.overall_confidence)

(***************************************************************************)
(* Properties of the deterministic path.                                   *)
(***************************************************************************)
Candidates(transactions) == {transactions[k] : k \in 1..Len(transactions)}

SameAmountDateCurrency(expense, transaction) ==
    /\ ~IsNone(expense.amount)
    /\ transaction.amount = expense.amount
    /\ transaction.currency = expense.currency
    /\ expense.expense_date.kind = "str"
    /\ transaction.transaction_date = expense.expense_date

VendorContained(expense, transaction) ==
    LET a == LowerStr(Val(expense.vendor_name))
        b == LowerStr(Val(transaction.vendor_name))
    IN  Contains(a, b) \/ Contains(b, a)

\* The first word of a name: the characters before its first space.
FirstWord(s) ==
    IF \E k \in 1..Len(s) : s[k] = " "
    THEN SubSeq(s, 1, (CHOOSE k \in 1..Len(s) :
                         s[k] = " " /\ \A l \in 1..(k - 1) : s[l] # " ") - 1)
    ELSE s

\* The names share their brand word and neither contains the other.
VendorPartial(expense, transaction) ==
    /\ ~IsNone(expense.vendor_name)
    /\ ~IsNone(transaction.vendor_name)
    /\ FirstWord(Val(expense.vendor_name)) = FirstWord(Val(transaction.vendor_name))
    /\ ~VendorContained(expense, transaction)

ScenarioA(expense) ==
    /\ \E t \in Candidates(citibank_transactions) :
          SameAmountDateCurrency(expense, t) /\ VendorPartial(expense, t)
    /\ \E t \in Candidates(concur_transactions) :
          SameAmountDateCurrency(expense, t) /\ VendorPartial(expense, t)

\* C11: on the deterministic path, when both systems hold a candidate with
\* the same amount, date and currency as the expense and a vendor name that
\* only partially matches, each system matches with confidence >= 0.8, the
\* overall confidence is >= 0.8 and the stored status is confirmed.
C11_ScenarioA ==
    /\ \A m \in Results :
          ScenarioA(m.extracted_expense) =>
              /\ Matched(m.citibank_match)
              /\ Matched(m.concur_match)
              /\ FGe(ConfidenceOf(m.citibank_match), F(8000))
              /\ FGe(ConfidenceOf(m.concur_match), F(8000))
              /\ FGe(m.overall_confidence, F(8000))
    /\ \A r \in Records :
          ScenarioA(extracted_expenses[1]) => r.match_status = "confirmed"

\* The candidate's amount is within the 1% tolerance of the expense's, and
\* its vendor (one name contains the other), date and currency match.
ScenarioBCandidate(expense, transaction) ==
    /\ ~IsNone(expense.amount)
    /\ ~IsNone(transaction.amount)
    /\ 100 * Abs(Val(expense.amount) - Val(transaction.amount))
          <= Val(expense.amount) * AMOUNT_TOLERANCE_PCT
    /\ transaction.currency = expense.currency
    /\ expense.expense_date.kind = "str"
    /\ transaction.transaction_date = expense.expense_date
    /\ ~IsNone(expense.vendor_name)
    /\ ~IsNone(transaction.vendor_name)
    /\ VendorContained(expense, transaction)

ScenarioB(m) ==
    \/ /\ \E t \in Candidates(citibank_transactions) :
             ScenarioBCandidate(m.extracted_expense, t)
       /\ ~Matched(m.concur_match)
    \/ /\ \E t \in Candidates(concur_transactions) :
             ScenarioBCandidate(m.extracted_expense, t)
       /\ ~Matched(m.citibank_match)

ScenarioC(expense, transactions) ==
    /\ Len(transactions) = 1
    /\ SameAmountDateCurrency(expense, transactions[1])
    /\ ~IsNone(expense.vendor_name)
    /\ ~IsNone(transactions[1].vendor_name)
    /\ ~VendorContained(expense, transactions[1])
    /\ FirstWord(Val(expense.vendor_name)) # FirstWord(Val(transactions[1].vendor_name))

\* C13: on the deterministic path, when the only candidate of a system has
\* the expense's amount, date and currency but an unrelated vendor name, the
\* combined confidence is below 0.3 and that system returns no transaction;
\* when this happens in both systems the overall confidence is exactly 0.0
\* and the stored status is rejected.
C13_ScenarioC ==
    /\ \A m \in Results :
          /\ ScenarioC(m.extracted_expense, citibank_transactions) =>
                /\ FLt(BestScore(m.extracted_expense, citibank_transactions), F(3000))
                /\ ~Matched(m.citibank_match)
          /\ ScenarioC(m.extracted_expense, concur_transactions) =>
                /\ FLt(BestScore(m.extracted_expense, concur_transactions), F(3000))
                /\ ~Matched(m.concur_match)
          /\ (/\ ScenarioC(m.extracted_expense, citibank_transactions)
              /\ ScenarioC(m.extracted_expense, concur_transactions)) =>
                m.overall_confidence = FZero
    /\ \A k \in 1..Len(records) :
          (/\ ScenarioC(matches[k].extracted_expense, citibank_transactions)
           /\ ScenarioC(matches[k].extracted_expense, concur_transactions)) =>
              records[k].match_status = "rejected"

(***************************************************************************)
(* Properties of an event with several expenses.                           *)
(***************************************************************************)
Rank(status) ==
    CASE status = "rejected" -> 0
      [] status = "pending" -> 1
      [] status = "confirmed" -> 2

\* Confidences of [0, 1] on both sides of the two thresholds.
ConfidenceGrid ==
    {F(n) : n \in {0, 2500, 5999, 6000, 6001, 7000, 7999, 8000, 8001, 10000}}
      \cup {<<6000, -1>>, <<6000, 1>>, <<8000, -1>>, <<8000, 1>>}

\* C14: status monotonicity: for any two confidences c1 <= c2 of [0, 1], both
\* of stored records or one of a stored record and one of the grid, the
\* status given to c1 is not higher than the status given to c2 in the order
\* rejected < pending < confirmed.
C14_StatusMonotone ==
    /\ \A r1, r2 \in Records :
          FGe(r2.match_confidence, r1.match_confidence) =>
              Rank(r1.match_status) <= Rank(r2.match_status)
    /\ \A r \in Records : \A c \in ConfidenceGrid :
          /\ FGe(c, r.match_confidence) => Rank(r.match_status) <= Rank(Classify(c))
          /\ FGe(r.match_confidence, c) => Rank(Classify(c)) <= Rank(r.match_status)

\* Two records of one event with confidences 0.7999 and 0.8 have been stored,
\* the lower one pending and the higher one confirmed.
C14_Witness ==
    \E r1, r2 \in Records :
        /\ r1.match_confidence = F(7999)
        /\ r2.match_confidence = F(8000)
        /\ r1.match_status = "pending"
        /\ r2.match_status = "confirmed"

(***************************************************************************)
(* Properties of two invocations on one engine.                            *)
(***************************************************************************)
Finished(frame) == frame.pc \in {"returned", "raised"}

\* What a call hands to its caller: a result list or the exception.
Outcome(frame) == [pc |-> frame.pc, error |-> frame.error, matches |-> frame.matches]

AloneOutcome(frame) ==
    RunAlone(frame.extracted_expenses[1], stub[frame.extracted_expenses[1].id])

\* C16: concurrent invocations share no mutable state: under every
\* interleaving, each finished invocation has the outcome it has when run
\* alone; a step of the running invocation leaves the frame of the other
\* one as it is; and no step writes the candidate lists, the engine's
\* tolerance or the collaborator's stub.
C16_NoSharedState ==
    /\ [](/\ Finished(RunningFrame) => Outcome(RunningFrame) = AloneOutcome(RunningFrame)
          /\ Finished(parked) => Outcome(parked) = AloneOutcome(parked))
    /\ [][parked' # parked => (parked' = RunningFrame /\ RunningFrame' = parked)]_vars
    /\ [][UNCHANGED <<citibank_transactions, concur_transactions,
                      date_tolerance_days, stub>>]_vars

\* Two invocations for different expenses are both in the middle of their
\* calls, each holding a per-system match of its own.
C16_Witness ==
    /\ parked.extracted_expenses # extracted_expenses
    /\ pc = "concur"
    /\ parked.pc = "overall"
    /\ Matched(citibank_match)
    /\ Matched(parked.citibank_match)
    /\ citibank_match # parked.citibank_match

(***************************************************************************)
(* Properties of the apportionment step.                                   *)
(***************************************************************************)
\* The amount of the expense a stored record belongs to.
RecordAmount(record) == Val(ExpenseById(extracted_expenses, record.extracted_expense_id).amount)

RECURSIVE SumOfRecords(_)
SumOfRecords(positions) ==
    IF positions = {} THEN 0
    ELSE LET k == CHOOSE x \in positions : TRUE
         IN  RecordAmount(records[k]) + SumOfRecords(positions \ {k})

\* C17: apportionment uses only confirmed matches: once
\* split_expenses_for_event has run, no expense whose record is pending or
\* rejected is among the expenses it collected, every collected expense has
\* a confirmed record, and the total amount is the sum of the amounts of the
\* expenses with a confirmed record (nothing at all for an event without
\* participants, where the handler returns before it reads the matches).
C17_OnlyConfirmed ==
    split.status # "idle" =>
        /\ \A k \in 1..Len(records) :
              records[k].match_status \in {"pending", "rejected"} =>
                 \A j \in 1..Len(split.total_expenses) :
                    split.total_expenses[j] # records[k].extracted_expense_id
        /\ \A j \in 1..Len(split.total_expenses) :
              \E k \in 1..Len(records) :
                 /\ records[k].extracted_expense_id = split.total_expenses[j]
                 /\ records[k].match_status = "confirmed"
        /\ split.total_amount =
              IF split.status = "no_participants" THEN 0
              ELSE SumOfRecords({k \in 1..Len(records) :
                                   records[k].match_status = "confirmed"})

\* The splitting step has run on an event with a confirmed and a rejected
\* record and has counted the confirmed expense alone.
C17_Witness ==
    /\ split.status = "name_error"
    /\ Len(records) = 2
    /\ records[1].match_status = "rejected"
    /\ records[2].match_status = "confirmed"
    /\ split.total_expenses = <<records[2].extracted_expense_id>>
    /\ split.total_amount = RecordAmount(records[2])
    /\ RecordAmount(records[1]) > 0

(***************************************************************************)
(* Properties of the fallback matcher's selection.                         *)
(***************************************************************************)
\* The scorer's value for every pair of demonstration rows, at the
\* configured tolerance.
DemoScores ==
    [expense \in EventExpenses, transaction \in DemoTransactions |->
        Score(expense, transaction, DATE_TOLERANCE_DAYS)]

ScoreIn(expense, transaction) == DemoScores[expense, transaction]

ReturnsMaximum(expense, transactions, match) ==
    Matched(match) =>
        /\ Val(match).transaction \in Candidates(transactions)
        /\ Val(match).confidence = ScoreIn(expense, Val(match).transaction)
        /\ \A t \in Candidates(transactions) :
              ~FGt(ScoreIn(expense, t), Val(match).confidence)

\* C18: the fallback matcher returns a candidate of the list whose combined
\* score is the maximum over the whole list: the returned confidence is the
\* score of the returned transaction and no candidate of the list scores
\* strictly higher, in whatever order the candidates are listed (the lists
\* of the specification are the rows in every order).
C18_ReturnsMaximum ==
    \A m \in Results :
        /\ ReturnsMaximum(m.extracted_expense, citibank_transactions, m.citibank_match)
        /\ ReturnsMaximum(m.extracted_expense, concur_transactions, m.concur_match)

\* A list of two candidates with the better one listed second, which is the
\* one returned.
C18_Witness ==
    /\ Len(citibank_transactions) = 2
    /\ \E m \in Results :
          /\ Matched(m.citibank_match)
          /\ Val(m.citibank_match).transaction = citibank_transactions[2]
          /\ FGt(ScoreIn(m.extracted_expense, citibank_transactions[1]), F(3000))
          /\ FGt(ScoreIn(m.extracted_expense, citibank_transactions[2]),
                 ScoreIn(m.extracted_expense, citibank_transactions[1]))

\* Lexicographic order on transaction ids (sequences of digits).
LexLess(a, b) ==
    \/ \E k \in 1..Len(a) :
          /\ k <= Len(b)
          /\ a[k] < b[k]
          /\ \A h \in 1..(k - 1) : a[h] = b[h]
    \/ /\ Len(a) < Len(b)
       /\ \A h \in 1..Len(a) : a[h] = b[h]

\* The candidates that tie on the highest combined score.
TiedBest(expense, transactions) ==
    {t \in Candidates(transactions) :
        ScoreIn(expense, t) = BestScore(expense, transactions)}

\* Among them, the one with the earliest transaction date and then the
\* lexicographically smallest transaction id.
TieBreak(expense, transactions) ==
    {t \in TiedBest(expense, transactions) :
        \A u \in TiedBest(expense, transactions) :
            \/ t.transaction_date.day < u.transaction_date.day
            \/ /\ t.transaction_date.day = u.transaction_date.day
               /\ (t = u \/ LexLess(t.transaction_id, u.transaction_id))}

\* The candidate list in every order.
Reorderings(transactions) ==
    {p \in [1..Len(transactions) -> Candidates(transactions)] :
        \A a, b \in 1..Len(transactions) : a # b => p[a] # p[b]}

BreaksTies(expense, transactions, match) ==
    Matched(match) =>
        /\ Val(match).transaction \in TieBreak(expense, transactions)
        /\ \A p \in Reorderings(transactions) :
              LET other == FallbackRuleBasedMatch(expense, p, date_tolerance_days).match
              IN  /\ Matched(other)
                  /\ Val(other).transaction = Val(match).transaction

\* C19: when several candidates tie on the highest combined score, the
\* matcher returns the one with the earliest transaction date and, among
\* those, the lexicographically smallest transaction id, and permuting the
\* candidate list does not change the selected transaction.
C19_TieBreak ==
    \A m \in Results :
        /\ BreaksTies(m.extracted_expense, citibank_transactions, m.citibank_match)
        /\ BreaksTies(m.extracted_expense, concur_transactions, m.concur_match)

(***************************************************************************)
(* Properties of the criteria breakdown.                                   *)
(***************************************************************************)
\* 0.4 * amount_match + 0.3 * date_match + 0.2 * vendor_match
\* + 0.1 * currency_match, in units of 1/100000 and without the rounding of
\* the last bits.
WeightedSum(criteria_scores) ==
    4 * criteria_scores.amount_match[1] + 3 * criteria_scores.date_match[1]
      + 2 * criteria_scores.vendor_match[1] + criteria_scores.currency_match[1]

InUnitInterval(x) == FGe(x, FZero) /\ FGe(F(10000), x)

WeightedCriteria(expense, match) ==
    (Matched(match) /\ Val(match).reasoning = "fallback") =>
        LET criteria_scores == Val(match).criteria_scores
            transaction == Val(match).transaction
        IN  /\ 10 * Val(match).confidence[1] = WeightedSum(criteria_scores)
            /\ InUnitInterval(criteria_scores.amount_match)
            /\ InUnitInterval(criteria_scores.date_match)
            /\ InUnitInterval(criteria_scores.vendor_match)
            /\ InUnitInterval(criteria_scores.currency_match)
            /\ (criteria_scores.amount_match = F(10000)) <=>
                  (AmountTerm(expense, transaction) = F(4000))
            /\ (criteria_scores.currency_match = F(10000)) <=>
                  (expense.currency = transaction.currency)

\* C20: for every match outcome of the deterministic scorer, the combined
\* confidence is 0.4 * amount_match + 0.3 * date_match + 0.2 * vendor_match
\* + 0.1 * currency_match of the criteria scores attached to that outcome
\* (description_match is not in the sum), each criterion lies in [0, 1],
\* amount_match is 1.0 exactly when the amount is within tolerance and
\* currency_match is 1.0 exactly when the currency codes are equal.
C20_WeightedCriteria ==
    \A m \in Results :
        /\ WeightedCriteria(m.extracted_expense, m.citibank_match)
        /\ WeightedCriteria(m.extracted_expense, m.concur_match)

(***************************************************************************)
(* Properties of the scorer's criteria.                                    *)
(***************************************************************************)
\* The transaction the card-feed outcome carries, scored against the expense
\* the loop is at.
ScoredTransaction == Val(citibank_match).transaction

\* C21: amount criterion: for a positive expense amount the contribution is
\* full (0.4) when the difference is within expense.amount * tolerance,
\* strictly between 0 and 0.4 when the difference lies between once and five
\* times the tolerance (linear decay), and 0 at five times the tolerance and
\* beyond.
C21_AmountDecay ==
    (Matched(citibank_match) /\ Val(CurrentExpense.amount) > 0) =>
        LET ea == Val(CurrentExpense.amount)
            diff == Abs(ea - Val(ScoredTransaction.amount))
            term == AmountTerm(CurrentExpense, ScoredTransaction)
        IN  /\ 100 * diff <= ea * AMOUNT_TOLERANCE_PCT => term = F(4000)
            /\ (/\ 100 * diff > ea * AMOUNT_TOLERANCE_PCT
                /\ 100 * diff < 5 * ea * AMOUNT_TOLERANCE_PCT) =>
                   (FGt(term, FZero) /\ FLt(term, F(4000)))
            /\ 100 * diff >= 5 * ea * AMOUNT_TOLERANCE_PCT => term = FZero

ValidDate(date) == date.kind \in {"str", "datetime"}

\* C22: date criterion: when the expense and the transaction both carry a
\* valid calendar date, the contribution is 0.3 at zero days difference,
\* decreases linearly with the absolute difference d (0.3 * (1 - d / 3)), and
\* is 0 at date_tolerance_days and beyond; being a function of the absolute
\* difference it is the same d days before and d days after, and it is
\* non-increasing in d.
C22_DateLinear ==
    (/\ Matched(citibank_match)
     /\ ValidDate(CurrentExpense.expense_date)
     /\ ValidDate(ScoredTransaction.transaction_date)) =>
        LET d == Abs(CurrentExpense.expense_date.day - ScoredTransaction.transaction_date.day)
            term == DateTerm(CurrentExpense, ScoredTransaction, date_tolerance_days)
        IN  term = IF d >= date_tolerance_days THEN FZero
                   ELSE F((3000 * (date_tolerance_days - d)) \div date_tolerance_days)

\* C28: a transaction whose amount equals the expense's amount receives the
\* full amount contribution 0.4, for every expense amount including zero
\* and negative amounts.
C28_EqualAmountFull ==
    (/\ Matched(citibank_match)
     /\ Val(ScoredTransaction.amount) = Val(CurrentExpense.amount)) =>
        AmountTerm(CurrentExpense, ScoredTransaction) = F(4000)

(***************************************************************************)
(* Properties of the order of the steps of match_expenses.                 *)
(***************************************************************************)
FallbackMatchOf(expense, transactions) ==
    FallbackRuleBasedMatch(expense, transactions, date_tolerance_days).match

\* Both per-system outcomes of the expense the loop is at have been produced.
BothOutcomesProduced ==
    /\ citibank_match = FallbackMatchOf(CurrentExpense, citibank_transactions)
    /\ concur_match = FallbackMatchOf(CurrentExpense, concur_transactions)

\* A result belongs to one expense: its outcomes are those of that expense
\* and its overall confidence is computed from those two outcomes.
ResultOfOneExpense(k) ==
    LET m == matches[k]
        expense == extracted_expenses[k]
    IN  /\ m.extracted_expense = expense
        /\ m.citibank_match = FallbackMatchOf(expense, citibank_transactions)
        /\ m.concur_match = FallbackMatchOf(expense, concur_transactions)
        /\ m.llm_reasoning = "fallback" =>
              m.overall_confidence =
                FallbackOverallAnalysis(m.citibank_match, m.concur_match).confidence

\* C23: for each expense the overall analysis starts only after both
\* per-system outcomes of that expense have been produced (the analysis is
\* assigned only by the step taken at the overall stage, which leaves the two
\* outcomes and the loop index as they are), and the overall confidence put
\* in a result is the one computed from exactly those two outcomes: the
\* appended result carries the current expense, its two outcomes and the
\* analysis just computed for them, never a value of another expense.
C23_OverallAfterBoth ==
    /\ []((pc \in {"overall", "append"}) => BothOutcomesProduced)
    /\ [](\A k \in 1..Len(matches) : ResultOfOneExpense(k))
    /\ [][(overall_analysis' # overall_analysis /\ overall_analysis' # NoAnalysis) =>
            (/\ pc = "overall"
             /\ BothOutcomesProduced
             /\ UNCHANGED <<i, citibank_match, concur_match>>)]_vars
    /\ [][Len(matches') = Len(matches) + 1 =>
            (/\ pc = "append"
             /\ matches'[Len(matches')] =
                   [extracted_expense |-> extracted_expenses[i],
                    citibank_match |-> citibank_match,
                    concur_match |-> concur_match,
                    overall_confidence |-> overall_analysis.confidence,
                    match_criteria |-> overall_analysis.criteria,
                    llm_reasoning |-> overall_analysis.source])]_vars

\* Two expenses of one batch have results with different outcomes and
\* different overall confidences, both computed by the fallback.
C23_Witness ==
    /\ Len(matches) = 2
    /\ matches[1].llm_reasoning = "fallback"
    /\ matches[2].llm_reasoning = "fallback"
    /\ Matched(matches[1].citibank_match)
    /\ Matched(matches[2].citibank_match)
    /\ matches[1].citibank_match # matches[2].citibank_match
    /\ matches[1].overall_confidence # matches[2].overall_confidence

(***************************************************************************)
(* Properties of the collaborator calls.                                   *)
(***************************************************************************)
Stages == {"citibank", "concur", "overall"}

\* The step that calls the collaborator at a stage leaves that stage.
CallLeavesStage(stage, successors) ==
    llm_calls'[stage] > llm_calls[stage] =>
        (pc = stage /\ llm_calls[stage] = 0 /\ pc' \in successors)

\* C24: the engine never retries the collaborator: while one expense is
\* matched at most one call is made per source system and at most one for
\* the overall analysis; the step that makes a call leaves the stage, and
\* when the call failed the value it leaves is the fallback's (or the
\* fallback's exception), not the product of another call.
C24_NoRetry ==
    /\ [](\A stage \in Stages : llm_calls[stage] <= 1)
    /\ [][/\ CallLeavesStage("citibank", {"concur", "raised"})
           /\ CallLeavesStage("concur", {"overall", "raised"})
           /\ CallLeavesStage("overall", {"append"})]_vars
    /\ [][(/\ llm_calls'.citibank > llm_calls.citibank
            /\ MatchResponseFails(citibank_transactions, llm_response')) =>
               LET fb == FallbackRuleBasedMatch(CurrentExpense, citibank_transactions,
                                                date_tolerance_days)
               IN  IF fb.raised THEN pc' = "raised" ELSE citibank_match' = fb.match]_vars
    /\ [][(/\ llm_calls'.concur > llm_calls.concur
            /\ MatchResponseFails(concur_transactions, llm_response')) =>
               LET fb == FallbackRuleBasedMatch(CurrentExpense, concur_transactions,
                                                date_tolerance_days)
               IN  IF fb.raised THEN pc' = "raised" ELSE concur_match' = fb.match]_vars
    /\ [][(/\ llm_calls'.overall > llm_calls.overall
            /\ llm_response'.kind \in {"exception", "nonjson"}) =>
               overall_analysis' = FallbackOverallAnalysis(citibank_match, concur_match)]_vars

\* All three calls for one expense have failed, each was made once, and the
\* outcome of the card feed is the fallback's.
C24_Witness ==
    /\ pc = "append"
    /\ llm_calls = [citibank |-> 1, concur |-> 1, overall |-> 1]
    /\ llm_response.kind = "exception"
    /\ overall_analysis.source = "fallback"
    /\ Matched(citibank_match)
    /\ Val(citibank_match).reasoning = "fallback"

(***************************************************************************)
(* Properties of the fallback reconciliation.                              *)
(***************************************************************************)
AloneConfidence(match) ==
    FMax(FallbackOverallAnalysis(match, None).confidence,
         FallbackOverallAnalysis(None, match).confidence)

\* C25: corroboration is rewarded: when both systems matched, the fallback
\* reconciliation's overall confidence is not lower than the overall
\* confidence either of the two matches gives alone, and the resulting
\* status is not lower either.
C25_CorroborationRewarded ==
    \A m \in Results :
        (/\ m.llm_reasoning = "fallback"
         /\ Matched(m.citibank_match)
         /\ Matched(m.concur_match)) =>
            \A alone \in {AloneConfidence(m.citibank_match),
                           AloneConfidence(m.concur_match)} :
                /\ FGe(m.overall_confidence, alone)
                /\ Rank(Classify(m.overall_confidence)) >= Rank(Classify(alone))

ConsistencyOf(first, second) ==
    Val(FallbackOverallAnalysis(first, second).criteria).cross_system_consistency

RawConfidence(match) == IF Matched(match) THEN Some(Val(match).confidence) ELSE None

\* C26: the criteria summary of the fallback reconciliation records for
\* each system whether it matched and its raw confidence (null when it did
\* not), and its cross_system_consistency tells the three cases apart: with
\* exactly one system matched it is strictly lower than with both systems
\* matched at the same confidence and strictly higher than with neither
\* matched; with both matched it is strictly higher than with one of them.
C26_ConsistencyCases ==
    \A m \in Results :
        m.llm_reasoning = "fallback" =>
            LET criteria == Val(m.match_criteria)
                one == IF Matched(m.citibank_match) THEN m.citibank_match ELSE m.concur_match
            IN  /\ criteria.has_citibank_match = Matched(m.citibank_match)
                /\ criteria.has_concur_match = Matched(m.concur_match)
                /\ criteria.citibank_confidence = RawConfidence(m.citibank_match)
                /\ criteria.concur_confidence = RawConfidence(m.concur_match)
                /\ (Matched(m.citibank_match) /\ Matched(m.concur_match)) =>
                      FGt(criteria.cross_system_consistency, ConsistencyOf(one, None))
                /\ (Matched(m.citibank_match) # Matched(m.concur_match)) =>
                      /\ FLt(criteria.cross_system_consistency, ConsistencyOf(one, one))
                      /\ FGt(criteria.cross_system_consistency, ConsistencyOf(None, None))

(***************************************************************************)
(* Properties of the ingestion of a file.                                  *)
(***************************************************************************)
Stored == {ingestion.stored[k] : k \in 1..Len(ingestion.stored)}
Sheet == {ingestion.df[k] : k \in 1..Len(ingestion.df)}

\* C27: when a row of a Citibank or Concur sheet has an amount that is not a
\* number or a date that does not parse, process_excel_files does not report
\* the file as a success, and the rows of the sheet that do convert are stored
\* all the same.
C27_MalformedRecordReported ==
    (/\ ingestion.pc = "returned"
     /\ ingestion.file_type \in {"citibank", "concur"}
     /\ \E row \in Sheet : Raises(row)) =>
        /\ Val(ingestion.result).status # "success"
        /\ \A row \in Sheet : ~Raises(row) => Transaction(row) \in Stored

(***************************************************************************)
(* Properties of the two handlers of an event.                             *)
(***************************************************************************)
RowsOf(expense) ==
    {n \in 1..Len(EventRows) : EventRows[n].extracted_expense_id = expense.id}

\* One result per expense of the batch, in the order of the batch.
OneResultPerExpense ==
    /\ Len(matches) = Len(extracted_expenses)
    /\ \A k \in 1..Len(matches) : matches[k].extracted_expense = extracted_expenses[k]

\* matches_created is the number of expenses; the high- and low-confidence
\* counts together do not exceed it.
CountsAgree ==
    /\ Len(records) = Len(extracted_expenses)
    /\ Cardinality({n \in 1..Len(records) :
                       records[n].match_status \in {"confirmed", "rejected"}})
          <= Len(records)

\* C29: once a call of match_expenses_for_event for the event has completed,
\* a first one or a repeated one, every extracted expense of the event has
\* exactly one ExpenseMatch row; match_expenses returned one result per
\* expense in the order of the input, and the counts of the summary agree.
C29_OneRecordPerExpense ==
    /\ pc \in {"returned", "completed"} => OneResultPerExpense
    /\ pc = "completed" =>
          /\ CountsAgree
          /\ \A k \in 1..Len(extracted_expenses) :
                Cardinality(RowsOf(extracted_expenses[k])) = 1

\* The part of C29 about one call: it holds in every call, repeated or not.
C29_WithinOneCall ==
    /\ pc \in {"returned", "completed"} => OneResultPerExpense
    /\ pc = "completed" => CountsAgree

\* The ProcessingLog entry of a call of match_expenses_for_event that has
\* returned is completed or in error.
MatchingLogClosed ==
    pc \in {"completed", "error"} => log.matching \in {"completed", "error"}

\* C30: the ProcessingLog entry a handler added with status "started" is
\* "completed" or "error" once the call has returned, whichever way it
\* returned; no entry of a finished call stays "started".
C30_LogClosedOnReturn ==
    /\ MatchingLogClosed
    /\ split.status # "idle" => log.splitting \in {"completed", "error"}

====
